---- MODULE Spec2Model ----
(***************************************************************************)
(* CurriculumAgent.create_learning_path (server/agents/curriculum_agent.py) *)
(* over an injected knowledge source (server/agents/knowledge_graph.py):    *)
(* goal resolution, prerequisite closure, layered topological ordering and  *)
(* path assembly.                                                           *)
(***************************************************************************)
EXTENDS Integers, Sequences, FiniteSets, TLC

\* ------------------------------------------------------------------------
\* Bounds of the explored inputs
\* ------------------------------------------------------------------------

\* total number of prerequisite edges of a generated knowledge source
MaxEdges == 2

\* length of the list find_modules_by_goal returns
MaxSeeds == 2

\* ------------------------------------------------------------------------
\* Module ids and the knowledge source
\* ------------------------------------------------------------------------

\* module ids of PYTHON_KNOWLEDGE_GRAPH used by the model
Ids == {"control_flow", "data_types", "operators", "python_basics", "variables"}

\* ids the generated knowledge sources range over
GenIds == {"operators", "python_basics", "variables"}

\* the code points of each id, as Python compares str values
Spelling ==
  [control_flow  |-> <<99, 111, 110, 116, 114, 111, 108, 95, 102, 108, 111, 119>>,
   data_types    |-> <<100, 97, 116, 97, 95, 116, 121, 112, 101, 115>>,
   operators     |-> <<111, 112, 101, 114, 97, 116, 111, 114, 115>>,
   python_basics |-> <<112, 121, 116, 104, 111, 110, 95, 98, 97, 115, 105, 99, 115>>,
   variables     |-> <<118, 97, 114, 105, 97, 98, 108, 101, 115>>]

\* "name" of each module of PYTHON_KNOWLEDGE_GRAPH
ModuleName ==
  [control_flow  |-> "Control Flow",
   data_types    |-> "Basic Data Types",
   operators     |-> "Operators",
   python_basics |-> "Python Basics",
   variables     |-> "Variables and Assignment"]

\* "estimated_time_hrs" of each module, in minutes
ModuleMinutes ==
  [control_flow  |-> 90,
   data_types    |-> 60,
   operators     |-> 60,
   python_basics |-> 240,
   variables     |-> 30]

\* one entry of the knowledge graph dict
ModuleEntry(id, prereqs) ==
  [name |-> ModuleName[id], prerequisites |-> prereqs,
   estimated_time_hrs |-> ModuleMinutes[id]]

\* sequences over S of length at most n
SeqsUpTo(S, n) == UNION {[1..k -> S] : k \in 0..n}

RECURSIVE SumLen(_, _)
\* total length of the prerequisite lists of the modules in D
SumLen(p, D) ==
  IF D = {} THEN 0
  ELSE LET d == CHOOSE e \in D : TRUE
       IN  Len(p[d]) + SumLen(p, D \ {d})

\* knowledge sources over GenIds: any subset of modules present, any
\* prerequisite lists (duplicates, self loops, cycles and references to
\* absent ids included) with at most MaxEdges edges in total
GenGraphs ==
  UNION {
    { [id \in D |-> ModuleEntry(id, p[id])] :
        p \in {q \in [D -> SeqsUpTo(GenIds, MaxEdges)] : SumLen(q, D) <= MaxEdges} }
    : D \in SUBSET GenIds }

\* the knowledge source of the control_flow scenario
ScenarioGraph ==
  [id \in {"control_flow", "data_types", "operators", "variables"} |->
     ModuleEntry(id,
       CASE id = "control_flow" -> <<"variables", "data_types", "operators">>
         [] id = "operators"    -> <<"variables", "data_types">>
         [] OTHER               -> <<>>)]

\* calls: (user_id, user_goals)
Calls ==
  { <<"user123", <<>>>>,
    <<"user456", <<"learn control flow">>>>,
    <<"user789", <<"understand functions", "learn python basics">>>> }

\* ------------------------------------------------------------------------
\* State
\* ------------------------------------------------------------------------

VARIABLES
  kg,                    \* the knowledge source's graph: id -> entry (a dict)
  goal_modules,          \* what find_modules_by_goal returns for the goal
  user_id,               \* argument
  assessment_output,     \* argument
  user_goals,            \* argument
  pc,                    \* position in create_learning_path
  known_topics,
  primary_goal,
  target_module_ids,
  required_modules,
  modules_to_explore,
  processed,
  sorted_module_ids,
  modules_to_sort,
  satisfied_nodes,
  remaining_sorted,
  learning_path_modules,
  result,                \* the returned value
  log,                   \* warnings and errors logged by the call
  run,                   \* 1 for the first call, 2 for its repetition
  first_result           \* what the first call returned

inputs == <<kg, goal_modules, user_id, assessment_output, user_goals>>

locals == <<known_topics, primary_goal, target_module_ids, required_modules,
            modules_to_explore, processed, sorted_module_ids, modules_to_sort,
            satisfied_nodes, remaining_sorted, learning_path_modules>>

vars == <<kg, goal_modules, user_id, assessment_output, user_goals, pc,
          known_topics, primary_goal, target_module_ids, required_modules,
          modules_to_explore, processed, sorted_module_ids, modules_to_sort,
          satisfied_nodes, remaining_sorted, learning_path_modules, result,
          log, run, first_result>>

\* the absent result
None == [absent |-> TRUE]

\* ------------------------------------------------------------------------
\* knowledge_graph.py
\* ------------------------------------------------------------------------

\* get_module_details returns a truthy value
HasDetails(id) == id \in DOMAIN kg

get_module_details(id) == kg[id]

get_prerequisites(id) ==
  IF HasDetails(id) THEN get_module_details(id).prerequisites ELSE <<>>

\* ------------------------------------------------------------------------
\* Helpers of create_learning_path
\* ------------------------------------------------------------------------

Range(s) == {s[i] : i \in 1..Len(s)}

\* the orders in which a set can be iterated, list(S)
ListsOf(S) ==
  {l \in [1..Cardinality(S) -> S] : \A i, j \in 1..Cardinality(S) : l[i] = l[j] => i = j}

RECURSIVE StrLessFrom(_, _, _)
StrLessFrom(s, t, i) ==
  IF i > Len(s) THEN i <= Len(t)
  ELSE IF i > Len(t) THEN FALSE
  ELSE IF s[i] # t[i] THEN s[i] < t[i]
  ELSE StrLessFrom(s, t, i + 1)

\* the comparison turned around
StrLess_Reversed(a, b) == StrLessFrom(Spelling[b], Spelling[a], 1)

\* a < b on str
StrLess(a, b) == StrLessFrom(Spelling[a], Spelling[b], 1)

RECURSIVE InsertSorted(_, _)
InsertSorted(x, s) ==
  IF s = <<>> THEN <<x>>
  ELSE IF StrLess(x, Head(s)) THEN <<x>> \o s
  ELSE <<Head(s)>> \o InsertSorted(x, Tail(s))

RECURSIVE SortedFrom(_, _)
SortedFrom(l, acc) ==
  IF l = <<>> THEN acc ELSE SortedFrom(Tail(l), InsertSorted(Head(l), acc))

\* the list left as it was iterated
sorted_Unsorted(l) == l

\* sorted(l)
sorted(l) == SortedFrom(l, <<>>)

DefaultGoal == "Default Learning Goal"

FallbackModule == "python_basics"

\* the last goal taken instead of the first
PrimaryGoal_Last(goals) == IF goals # <<>> THEN goals[Len(goals)] ELSE DefaultGoal

\* line 58
PrimaryGoal(goals) == IF goals # <<>> THEN goals[1] ELSE DefaultGoal

\* no fallback module
TargetModuleIds_NoFallback(found) == found

\* lines 61-66
TargetModuleIds(found) == IF found = <<>> THEN <<FallbackModule>> ELSE found

\* the test on known topics turned around
ToExplore_KnownOnly(prereqs, proc, known) ==
  SelectSeq(prereqs, LAMBDA p : p \notin proc /\ p \in known)

\* line 88: the prerequisites appended to the exploration list
ToExplore(prereqs, proc, known) ==
  SelectSeq(prereqs, LAMBDA p : p \notin proc /\ p \notin known)

\* known topics not skipped
IsUnknown_Always(id, known) == TRUE

\* line 80
IsUnknown(id, known) == id \notin known

\* prerequisites not looked at
IsReady_NoCheck(module_id, satisfied) == TRUE

\* one satisfied prerequisite taken for all of them
IsReady_Any(module_id, satisfied) ==
  \/ get_prerequisites(module_id) = <<>>
  \/ Range(get_prerequisites(module_id)) \cap satisfied # {}

\* lines 105-107
IsReady(module_id, satisfied) == Range(get_prerequisites(module_id)) \subseteq satisfied

\* an empty pass not noticed
Unresolvable_Never(added_in_pass, to_sort) == FALSE

\* line 111
Unresolvable(added_in_pass, to_sort) == ~added_in_pass /\ to_sort # {}

\* the fallback batch left as it was iterated
RemainingSorted_Raw(rest) == rest

\* line 115
RemainingSorted(rest) == sorted(rest)

\* the modules of the pass not taken out
StillToSort_Kept(to_sort, added) == to_sort

\* line 125
StillToSort(to_sort, added) == to_sort \ added

RECURSIVE ScanReady(_, _, _)
\* lines 104-109: the modules of the iteration l that are ready
ScanReady(l, satisfied, acc) ==
  IF l = <<>> THEN acc
  ELSE ScanReady(Tail(l), satisfied,
                 IF IsReady(Head(l), satisfied) THEN acc \cup {Head(l)} ELSE acc)

\* lines 133-139
PathModule(module_id) ==
  [module_id |-> module_id,
   name |-> get_module_details(module_id).name,
   status |-> "pending",
   estimated_time_hrs |-> get_module_details(module_id).estimated_time_hrs]

RECURSIVE FormatModules(_)
\* lines 129-139
FormatModules(ids) ==
  IF ids = <<>> THEN <<>>
  ELSE (IF HasDetails(Head(ids)) THEN <<PathModule(Head(ids))>> ELSE <<>>)
       \o FormatModules(Tail(ids))

\* lines 147-154
LearningPath(uid, goal, modules, assessment, goals) ==
  [user_id |-> uid,
   goal |-> goal,
   modules |-> modules,
   current_module_index |-> 0,
   assessment_snapshot |-> assessment,
   user_goals_snapshot |-> goals]

\* a path returned also when it has no module
ReturnValue_AlwaysPath(uid, goal, modules, assessment, goals) ==
  LearningPath(uid, goal, modules, assessment, goals)

\* lines 141-157
ReturnValue(uid, goal, modules, assessment, goals) ==
  IF modules = <<>> THEN None
  ELSE LearningPath(uid, goal, modules, assessment, goals)

\* ------------------------------------------------------------------------
\* Initial states
\* ------------------------------------------------------------------------

BlankLocals ==
  /\ known_topics = {}
  /\ primary_goal = DefaultGoal
  /\ target_module_ids = <<>>
  /\ required_modules = {}
  /\ modules_to_explore = <<>>
  /\ processed = {}
  /\ sorted_module_ids = <<>>
  /\ modules_to_sort = {}
  /\ satisfied_nodes = {}
  /\ remaining_sorted = <<>>
  /\ learning_path_modules = <<>>

InitGenerated ==
  /\ kg \in GenGraphs
  /\ goal_modules \in SeqsUpTo(GenIds, MaxSeeds)
  /\ assessment_output \in {[known_topics |-> k] : k \in SUBSET GenIds}
  /\ \E c \in Calls : user_id = c[1] /\ user_goals = c[2]

InitScenario ==
  /\ kg = ScenarioGraph
  /\ goal_modules = <<"control_flow">>
  /\ assessment_output = [known_topics |-> {}]
  /\ user_id = "user456"
  /\ user_goals = <<"learn control flow">>

Init ==
  /\ InitGenerated \/ InitScenario
  /\ pc = "start"
  /\ BlankLocals
  /\ result = None
  /\ log = {}
  /\ run = 1
  /\ first_result = None

\* ------------------------------------------------------------------------
\* Steps of create_learning_path
\* ------------------------------------------------------------------------

\* lines 57-71: goal resolution and the start of the closure
ResolveGoal ==
  /\ pc = "start"
  /\ known_topics' = assessment_output.known_topics
  /\ primary_goal' = PrimaryGoal(user_goals)
  /\ target_module_ids' = TargetModuleIds(goal_modules)
  /\ log' = IF goal_modules = <<>> THEN log \cup {"no_goal_modules"} ELSE log
  /\ required_modules' = {}
  /\ modules_to_explore' = target_module_ids'
  /\ processed' = {}
  /\ pc' = "explore"
  /\ UNCHANGED <<inputs, sorted_module_ids, modules_to_sort, satisfied_nodes,
                 remaining_sorted, learning_path_modules, result, run, first_result>>

\* lines 73-91: one iteration of the closure loop
Explore ==
  /\ pc = "explore"
  /\ modules_to_explore # <<>>
  /\ LET current_module_id == Head(modules_to_explore)
         rest == Tail(modules_to_explore)
     IN  IF current_module_id \in processed
         THEN /\ modules_to_explore' = rest
              /\ UNCHANGED <<processed, required_modules, log>>
         ELSE /\ processed' = processed \cup {current_module_id}
              /\ IF IsUnknown(current_module_id, known_topics)
                 THEN IF HasDetails(current_module_id)
                      THEN /\ required_modules' = required_modules \cup {current_module_id}
                           /\ modules_to_explore' =
                                rest \o ToExplore(get_prerequisites(current_module_id),
                                                  processed', known_topics)
                           /\ UNCHANGED log
                      ELSE /\ log' = log \cup {"module_not_found"}
                           /\ modules_to_explore' = rest
                           /\ UNCHANGED required_modules
                 ELSE /\ modules_to_explore' = rest
                      /\ UNCHANGED <<required_modules, log>>
  /\ UNCHANGED <<inputs, pc, known_topics, primary_goal, target_module_ids,
                 sorted_module_ids, modules_to_sort, satisfied_nodes,
                 remaining_sorted, learning_path_modules, result, run, first_result>>

\* lines 73, 96-98: the closure loop ends, the ordering starts
StartSort ==
  /\ pc = "explore"
  /\ modules_to_explore = <<>>
  /\ sorted_module_ids' = <<>>
  /\ modules_to_sort' = required_modules
  /\ satisfied_nodes' = known_topics
  /\ pc' = "sort"
  /\ UNCHANGED <<inputs, known_topics, primary_goal, target_module_ids,
                 required_modules, modules_to_explore, processed, remaining_sorted,
                 learning_path_modules, result, log, run, first_result>>

\* lines 100-125: one pass of the ordering loop
SortPass ==
  /\ pc = "sort"
  /\ modules_to_sort # {}
  /\ \E scan \in ListsOf(modules_to_sort) :
       LET nodes_to_add_this_pass == ScanReady(scan, satisfied_nodes, {})
           added_in_pass == nodes_to_add_this_pass # {}
       IN  IF Unresolvable(added_in_pass, modules_to_sort)
           THEN \E rest \in ListsOf(modules_to_sort) :
                  /\ remaining_sorted' = RemainingSorted(rest)
                  /\ sorted_module_ids' = sorted_module_ids \o remaining_sorted'
                  /\ log' = log \cup {"unresolved_dependencies"}
                  /\ pc' = "format"
                  /\ UNCHANGED <<satisfied_nodes, modules_to_sort>>
           ELSE \E pass \in ListsOf(nodes_to_add_this_pass) :
                  LET sorted_pass_nodes == sorted(pass)
                  IN  /\ sorted_module_ids' = sorted_module_ids \o sorted_pass_nodes
                      /\ satisfied_nodes' = satisfied_nodes \cup Range(sorted_pass_nodes)
                      /\ modules_to_sort' = StillToSort(modules_to_sort, nodes_to_add_this_pass)
                      /\ UNCHANGED <<remaining_sorted, log, pc>>
  /\ UNCHANGED <<inputs, known_topics, primary_goal, target_module_ids,
                 required_modules, modules_to_explore, processed,
                 learning_path_modules, result, run, first_result>>

\* line 100: the ordering loop ends with nothing left to sort
EndSort ==
  /\ pc = "sort"
  /\ modules_to_sort = {}
  /\ pc' = "format"
  /\ UNCHANGED <<inputs, locals, result, log, run, first_result>>

\* lines 129-139: the path modules
Format ==
  /\ pc = "format"
  /\ learning_path_modules' = FormatModules(sorted_module_ids)
  /\ pc' = "return"
  /\ UNCHANGED <<inputs, known_topics, primary_goal, target_module_ids,
                 required_modules, modules_to_explore, processed, sorted_module_ids,
                 modules_to_sort, satisfied_nodes, remaining_sorted, result, log,
                 run, first_result>>

\* lines 141-157: the returned value
Return ==
  /\ pc = "return"
  /\ result' = ReturnValue(user_id, primary_goal, learning_path_modules,
                           assessment_output, user_goals)
  /\ log' = IF learning_path_modules = <<>> THEN log \cup {"no_modules_generated"} ELSE log
  /\ pc' = "done"
  /\ UNCHANGED <<inputs, locals, run, first_result>>

\* the caller repeats the call with the same arguments and knowledge source
CallAgain ==
  /\ pc = "done"
  /\ run = 1
  /\ run' = 2
  /\ first_result' = result
  /\ pc' = "start"
  /\ known_topics' = {}
  /\ primary_goal' = DefaultGoal
  /\ target_module_ids' = <<>>
  /\ required_modules' = {}
  /\ modules_to_explore' = <<>>
  /\ processed' = {}
  /\ sorted_module_ids' = <<>>
  /\ modules_to_sort' = {}
  /\ satisfied_nodes' = {}
  /\ remaining_sorted' = <<>>
  /\ learning_path_modules' = <<>>
  /\ result' = None
  /\ log' = {}
  /\ UNCHANGED inputs

Step == ResolveGoal \/ Explore \/ StartSort \/ SortPass \/ EndSort \/ Format \/ Return

Next == Step \/ CallAgain

Spec == Init /\ [][Next]_vars

\* a call that has started runs to its end
FairSpec == Spec /\ WF_vars(Step)

\* ------------------------------------------------------------------------
\* Vocabulary of the properties
\* ------------------------------------------------------------------------

Done == pc = "done"

Returned == Done /\ result # None

\* the module ids of a returned path, in order
PathIds(path) == [i \in 1..Len(path.modules) |-> path.modules[i].module_id]

NoDuplicates(s) == \A i, j \in 1..Len(s) : s[i] = s[j] => i = j

RECURSIVE Descendants(_, _)
Descendants(S, n) ==
  IF n = 0 THEN S
  ELSE Descendants(S \cup UNION {Range(get_prerequisites(t)) : t \in S}, n - 1)

\* the ids reachable from id along one or more prerequisite edges
PrereqsStar(id) == Descendants(Range(get_prerequisites(id)), Cardinality(Ids))

\* the prerequisite graph has no cycle and no self loop
Acyclic == \A id \in Ids : id \notin PrereqsStar(id)

\* every prerequisite of ids[i] is known or stands before position i
PrereqValid(ids, known) ==
  \A i \in 1..Len(ids) :
    \A p \in Range(get_prerequisites(ids[i])) :
      p \in known \/ \E j \in 1..(i - 1) : ids[j] = p

\* every prerequisite of a module of ids is known or exists in the knowledge source
NoDanglingPrereq(ids, known) ==
  \A i \in 1..Len(ids) :
    \A p \in Range(get_prerequisites(ids[i])) : p \in known \/ HasDetails(p)

StrictlyIncreasing(s) == \A i \in 1..(Len(s) - 1) : StrLess(s[i], s[i + 1])

\* no module left to sort has all its prerequisites satisfied
NoneReady ==
  \A m \in modules_to_sort : ~(Range(get_prerequisites(m)) \subseteq satisfied_nodes)

IsSuffix(s, t) ==
  /\ Len(s) <= Len(t)
  /\ \A i \in 1..Len(s) : s[i] = t[Len(t) - Len(s) + i]

InScenario ==
  /\ kg = ScenarioGraph
  /\ assessment_output.known_topics = {}
  /\ goal_modules = <<"control_flow">>

\* ------------------------------------------------------------------------
\* C1
\* ------------------------------------------------------------------------

\* C1 as stated: for every non-cyclic prerequisite graph, edges to ids absent
\* from the knowledge source allowed, every module of the returned path has
\* each of its prerequisites in known_topics or at an earlier position.
C1_PrereqValidity_AsStated ==
  (Returned /\ Acyclic) =>
    PrereqValid(PathIds(result), assessment_output.known_topics)

\* C1 amended: for every non-cyclic prerequisite graph in which each
\* prerequisite of a returned module is in known_topics or exists in the
\* knowledge source, every module of the returned path has each of its
\* prerequisites in known_topics or at an earlier position.
C1_PrereqValidity ==
  (Returned /\ Acyclic
     /\ NoDanglingPrereq(PathIds(result), assessment_output.known_topics)) =>
    PrereqValid(PathIds(result), assessment_output.known_topics)

\* a returned path of a non-cyclic graph in which a module follows a
\* prerequisite that had to be learned, next to a known prerequisite
C1_Witness ==
  /\ Returned /\ Acyclic
  /\ NoDanglingPrereq(PathIds(result), assessment_output.known_topics)
  /\ Len(result.modules) >= 2
  /\ \E i \in 1..Len(result.modules) :
       /\ Range(get_prerequisites(PathIds(result)[i]))
            \cap assessment_output.known_topics # {}
       /\ Range(get_prerequisites(PathIds(result)[i]))
            \ assessment_output.known_topics # {}

\* ------------------------------------------------------------------------
\* C2
\* ------------------------------------------------------------------------

\* C2: for any finite prerequisite graph, cycles and self loops included, and
\* any seed list and known-topic set, a started call gets through the closure
\* loop and the ordering loop and returns (a path or the absent result).
C2_Termination == (pc = "start") ~> (pc = "done")

\* a call over a cyclic graph has returned after the ordering loop gave up on
\* modules that are on a cycle
C2_Witness ==
  /\ Done
  /\ ~Acyclic
  /\ "unresolved_dependencies" \in log
  /\ \E m \in Range(remaining_sorted) : m \in PrereqsStar(m)

\* ------------------------------------------------------------------------
\* C3
\* ------------------------------------------------------------------------

\* C3: the ordered list never holds an id twice and never an id outside the
\* required modules, and when the ordering loop has ended (normally or by the
\* cycle fallback) it holds exactly the required modules, once each; so no
\* module id occurs twice in the returned path.
C3_Permutation ==
  /\ NoDuplicates(sorted_module_ids)
  /\ Range(sorted_module_ids) \subseteq required_modules
  /\ pc = "sort" => (Range(sorted_module_ids) \cup modules_to_sort = required_modules
                     /\ Range(sorted_module_ids) \cap modules_to_sort = {})
  /\ pc \in {"format", "return", "done"} =>
       /\ Range(sorted_module_ids) = required_modules
       /\ Len(sorted_module_ids) = Cardinality(required_modules)
  /\ Returned => NoDuplicates(PathIds(result))

\* the ordering loop has ended after a normal pass and the fallback batch, with
\* three required modules in the list
C3_Witness ==
  /\ pc = "format"
  /\ Cardinality(required_modules) >= 3
  /\ remaining_sorted # <<>>
  /\ Len(remaining_sorted) < Len(sorted_module_ids)

\* ------------------------------------------------------------------------
\* C4
\* ------------------------------------------------------------------------

\* C4: no id of the assessment's known_topics is a module of the returned
\* path, whatever the graph, the goal and the known topics.
C4_KnownExcluded ==
  Returned => Range(PathIds(result)) \cap assessment_output.known_topics = {}

\* a path was returned although a goal seed is known and a known topic lies on
\* a cycle with a returned module
C4_Witness ==
  /\ Returned
  /\ Range(target_module_ids) \cap assessment_output.known_topics # {}
  /\ \E k \in assessment_output.known_topics :
       /\ k \in PrereqsStar(k)
       /\ Range(PathIds(result)) \cap PrereqsStar(k) # {}

\* ------------------------------------------------------------------------
\* C5
\* ------------------------------------------------------------------------

\* C5: a second call with the same known topics, goals and knowledge source
\* returns what the first call returned, modules in the same order, whatever
\* order the sets were iterated in, the cycle fallback included.
C5_Determinism == (run = 2 /\ Done) => result = first_result

\* the second call has returned a path whose order was settled by a normal
\* pass of two modules
C5_Witness ==
  /\ run = 2 /\ Returned
  /\ remaining_sorted = <<>>
  /\ \E i \in 1..(Len(result.modules) - 1) :
       /\ IsReady(PathIds(result)[i], assessment_output.known_topics)
       /\ IsReady(PathIds(result)[i + 1], assessment_output.known_topics)

\* ------------------------------------------------------------------------
\* C6
\* ------------------------------------------------------------------------

\* C6 as stated: in the control_flow scenario the returned modules are
\* variables, data_types, operators, control_flow, in this order.
C6_Scenario_AsStated ==
  (InScenario /\ Done) =>
    /\ result # None
    /\ PathIds(result) = <<"variables", "data_types", "operators", "control_flow">>

\* C6 amended: in the control_flow scenario the returned modules are
\* data_types, variables, operators, control_flow, in this order (data_types
\* and variables are ready in the same pass and data_types sorts first).
C6_Scenario ==
  (InScenario /\ Done) =>
    /\ result # None
    /\ PathIds(result) = <<"data_types", "variables", "operators", "control_flow">>

\* the call of the scenario has returned
C6_Witness == InScenario /\ Returned /\ Len(result.modules) = 4

\* ------------------------------------------------------------------------
\* C7
\* ------------------------------------------------------------------------

\* C7 as stated: with empty user_goals the goal is the default label, the
\* seed is the hardcoded default module when find_modules_by_goal returns
\* nothing, and then a path is returned whenever the default module is not a
\* known topic; goal resolution always yields at least one seed.
C7_EmptyGoals_AsStated ==
  /\ pc # "start" => Len(target_module_ids) >= 1
  /\ (pc # "start" /\ user_goals = <<>>) => primary_goal = DefaultGoal
  /\ (pc # "start" /\ goal_modules = <<>>) => target_module_ids = <<FallbackModule>>
  /\ (Done /\ user_goals = <<>> /\ goal_modules = <<>>
        /\ FallbackModule \notin assessment_output.known_topics) => result # None

\* C7 amended: as stated, but a path is returned whenever the default module
\* is not a known topic and exists in the knowledge source.
C7_EmptyGoals ==
  /\ pc # "start" => Len(target_module_ids) >= 1
  /\ (pc # "start" /\ user_goals = <<>>) => primary_goal = DefaultGoal
  /\ (pc # "start" /\ goal_modules = <<>>) => target_module_ids = <<FallbackModule>>
  /\ (Done /\ user_goals = <<>> /\ goal_modules = <<>>
        /\ FallbackModule \notin assessment_output.known_topics
        /\ HasDetails(FallbackModule)) => result # None

\* a call with no goals and no module found for the default goal has returned
\* a path that starts from the default module
C7_Witness ==
  /\ Returned
  /\ user_goals = <<>> /\ goal_modules = <<>>
  /\ "no_goal_modules" \in log
  /\ FallbackModule \in Range(PathIds(result))
  /\ Len(result.modules) >= 2

\* ------------------------------------------------------------------------
\* C8
\* ------------------------------------------------------------------------

\* C8: a pass of the ordering loop that finds no ready module while modules
\* remain appends all of them, in lexicographic order, as one batch, and ends
\* the loop; the call then returns a path, not a failure, whose last modules
\* are that batch.
C8_Fallback ==
  /\ [][(pc = "sort" /\ modules_to_sort # {} /\ NoneReady) =>
          /\ pc' = "format"
          /\ Range(remaining_sorted') = modules_to_sort
          /\ Len(remaining_sorted') = Cardinality(modules_to_sort)
          /\ StrictlyIncreasing(remaining_sorted')
          /\ sorted_module_ids' = sorted_module_ids \o remaining_sorted'
          /\ "unresolved_dependencies" \in log']_vars
  /\ []((Done /\ "unresolved_dependencies" \in log) =>
          /\ result # None
          /\ remaining_sorted # <<>>
          /\ IsSuffix(remaining_sorted, PathIds(result)))

\* a path was returned whose last two modules are the fallback batch, after a
\* module placed by a normal pass
C8_Witness ==
  /\ Returned
  /\ "unresolved_dependencies" \in log
  /\ Len(remaining_sorted) >= 2
  /\ Len(result.modules) > Len(remaining_sorted)

\* ------------------------------------------------------------------------
\* C9
\* ------------------------------------------------------------------------

\* C9: the call returns the absent result whenever no module is required,
\* that is when every goal seed is a known topic or has no entry in the
\* knowledge source; and every returned path has at least one module.
C9_AbsentResult ==
  Done =>
    /\ (\A s \in Range(target_module_ids) :
          s \in assessment_output.known_topics \/ ~HasDetails(s)) => result = None
    /\ required_modules = {} => result = None
    /\ result # None => Len(result.modules) >= 1

\* the absent result was returned for a seed that is unknown to the learner
\* and to the knowledge source
C9_Witness ==
  /\ Done /\ result = None
  /\ "module_not_found" \in log
  /\ "no_modules_generated" \in log
  /\ \E s \in Range(target_module_ids) :
       s \notin assessment_output.known_topics /\ ~HasDetails(s)

\* ------------------------------------------------------------------------
\* C10
\* ------------------------------------------------------------------------

\* C10 as stated: every returned path has the user_id of the call, the first
\* element of user_goals as goal, current_module_index 0 and only modules of
\* status "pending".
C10_PathShape_AsStated ==
  Returned =>
    /\ result.user_id = user_id
    /\ user_goals # <<>> /\ result.goal = Head(user_goals)
    /\ result.current_module_index = 0
    /\ \A i \in 1..Len(result.modules) : result.modules[i].status = "pending"

\* C10 amended: every returned path has the user_id of the call, as goal the
\* first element of user_goals or, when user_goals is empty, the default goal
\* label, current_module_index 0 and only modules of status "pending".
C10_PathShape ==
  Returned =>
    /\ result.user_id = user_id
    /\ user_goals # <<>> => result.goal = Head(user_goals)
    /\ user_goals = <<>> => result.goal = "Default Learning Goal"
    /\ result.current_module_index = 0
    /\ \A i \in 1..Len(result.modules) : result.modules[i].status = "pending"

\* a path of two modules was returned for a call with two goals
C10_Witness ==
  /\ Returned
  /\ Len(user_goals) = 2 /\ user_goals[1] # user_goals[2]
  /\ Len(result.modules) >= 2

\* ------------------------------------------------------------------------
\* C11
\* ------------------------------------------------------------------------

\* the learner does not know id and the knowledge source has it
ToLearn(id) == id \notin assessment_output.known_topics /\ HasDetails(id)

RECURSIVE ReachableToLearn(_, _)
\* the ids reached from S in at most n prerequisite edges, passing through
\* and ending at ids that are to learn
ReachableToLearn(S, n) ==
  IF n = 0 THEN S
  ELSE ReachableToLearn(
         S \cup {p \in UNION {Range(get_prerequisites(m)) : m \in S} : ToLearn(p)},
         n - 1)

\* the prerequisite closure of the seed ids
ClosureOfSeeds ==
  ReachableToLearn({t \in Range(target_module_ids) : ToLearn(t)}, Cardinality(Ids))

\* C11: the required modules computed by the breadth-first traversal are
\* exactly the ids reachable from the seed ids along prerequisite edges
\* through ids that are all, the last one included, unknown to the learner
\* and present in the knowledge source (nothing is explored through a known
\* id, an absent id is dropped and not explored); an id taken from the
\* exploration list is expanded only if it was not processed before, and is
\* processed from then on, so that no id is expanded twice however often it
\* was enqueued.
C11_Closure ==
  /\ [](pc = "explore" => required_modules \subseteq ClosureOfSeeds)
  /\ [](pc \in {"sort", "format", "return", "done"} =>
          required_modules = ClosureOfSeeds)
  /\ [][(pc = "explore" /\ modules_to_explore # <<>>) =>
          LET id == Head(modules_to_explore)
          IN  /\ id \in processed =>
                   /\ required_modules' = required_modules
                   /\ processed' = processed
                   /\ modules_to_explore' = Tail(modules_to_explore)
              /\ id \notin processed =>
                   /\ processed' = processed \cup {id}
                   /\ required_modules' =
                        IF ToLearn(id) THEN required_modules \cup {id}
                        ELSE required_modules
                   /\ ~ToLearn(id) => modules_to_explore' = Tail(modules_to_explore)
              /\ required_modules' \subseteq processed']_vars

\* an id that was enqueued twice and is already expanded is taken from the
\* exploration list a second time, ahead of an id that is unknown to the
\* learner and absent from the knowledge source
C11_Witness ==
  /\ pc = "explore"
  /\ modules_to_explore # <<>>
  /\ Head(modules_to_explore) \in required_modules
  /\ Cardinality(required_modules) >= 2
  /\ \E x \in Range(Tail(modules_to_explore)) :
       x \notin assessment_output.known_topics /\ ~HasDetails(x)

\* ------------------------------------------------------------------------
\* C12
\* ------------------------------------------------------------------------

\* the ids placed before the fallback batch
PlacedByPasses ==
  SubSeq(sorted_module_ids, 1, Len(sorted_module_ids) - Len(remaining_sorted))

\* C12: on any input, once the ordering loop has ended, the ordered list is
\* the modules placed by normal passes followed by the fallback batch; each
\* module placed by a normal pass has all its prerequisites in known_topics
\* or at an earlier position, and each module of the fallback batch has a
\* prerequisite that is neither known nor placed before the batch; the
\* returned path lists the modules in that order.
C12_OnlyFallbackBreaks ==
  pc \in {"format", "return", "done"} =>
    /\ IsSuffix(remaining_sorted, sorted_module_ids)
    /\ PrereqValid(PlacedByPasses, assessment_output.known_topics)
    /\ \A i \in 1..Len(remaining_sorted) :
         \E p \in Range(get_prerequisites(remaining_sorted[i])) :
           /\ p \notin assessment_output.known_topics
           /\ p \notin Range(PlacedByPasses)
    /\ Returned => PathIds(result) = sorted_module_ids

\* a path was returned on a cyclic input in which a module placed by a normal
\* pass, with a known prerequisite, stands before a fallback batch that breaks
\* prerequisite validity
C12_Witness ==
  /\ Returned
  /\ ~Acyclic
  /\ remaining_sorted # <<>>
  /\ \E i \in 1..Len(PlacedByPasses) :
       Range(get_prerequisites(PlacedByPasses[i])) \cap assessment_output.known_topics # {}
  /\ ~PrereqValid(PathIds(result), assessment_output.known_topics)

====
